---- MODULE Spec2Model ----
(***************************************************************************)
(* Steering file discovery and loading (codex-rs/core/src/steering.rs).   *)
(*                                                                         *)
(* Texts, file names, display paths and the combined prompt text are       *)
(* sequences of bytes (0..255).  The file system is the environment: what  *)
(* the probes of the .git markers answer is drawn when a call starts, the  *)
(* answer of every other system call (directory listing, open, stat, read) *)
(* from a bounded set when the call is made.  Spec runs one call step by   *)
(* step, SpecDiscover its discovery over directories with every kind of    *)
(* entry, SpecRoot the root walk alone, SpecRerun two whole calls against  *)
(* one file system whose directories and files are drawn at the start, and *)
(* SpecWide the loop over two candidates with a budget wider than a        *)
(* character of four bytes.                                                *)
(***************************************************************************)
EXTENDS Integers, Sequences, FiniteSets, TLC

\* ------------------------------------------------------------------ bounds
\* the configured steering_doc_max_bytes of a load with a budget
MaxBytes == 2
\* largest size of a steering file on disk
MaxFileSize == 3
\* largest number of path components of cwd below the file system root (runs
\* of the root walk)
MaxDepth == 2
\* largest number of entries in one scanned directory (discovery runs)
MaxEntries == 2

\* ------------------------------------------------------- string constants
PROJECT_STEERING_DIR == <<46, 99, 111, 100, 101, 120, 47, 115, 116, 101, 101, 114, 105, 110, 103>>
GLOBAL_STEERING_DIR == <<115, 116, 101, 101, 114, 105, 110, 103>>
\* "$CODEX_HOME"
CodexHomeVar == <<36, 67, 79, 68, 69, 88, 95, 72, 79, 77, 69>>
\* "[Steering: scope="
HeaderOpen == <<91, 83, 116, 101, 101, 114, 105, 110, 103, 58, 32, 115, 99, 111, 112, 101, 61>>
\* " file="
HeaderFile == <<32, 102, 105, 108, 101, 61>>
\* " truncated=true"
HeaderTruncated == <<32, 116, 114, 117, 110, 99, 97, 116, 101, 100, 61, 116, 114, 117, 101>>
\* "[Steering: note]"
NoteTitle == <<91, 83, 116, 101, 101, 114, 105, 110, 103, 58, 32, 110, 111, 116, 101, 93>>
\* "Omitted "
NoteOmitted == <<79, 109, 105, 116, 116, 101, 100, 32>>
\* " file(s) due to steering.doc_max_bytes="
NoteDueTo == <<32, 102, 105, 108, 101, 40, 115, 41, 32, 100, 117, 101, 32, 116, 111, 32, 115, 116, 101, 101, 114, 105, 110, 103, 46, 100, 111, 99, 95, 109, 97, 120, 95, 98, 121, 116, 101, 115, 61>>
\* "- scope="
NoteLineScope == <<45, 32, 115, 99, 111, 112, 101, 61>>
\* " reason=over-budget"
NoteLineReason == <<32, 114, 101, 97, 115, 111, 110, 61, 111, 118, 101, 114, 45, 98, 117, 100, 103, 101, 116>>
\* "md"
MdExt == <<109, 100>>
\* "/", "\n", ".", "]"
Slash == <<47>>
NL == <<10>>
Dot == <<46>>
CloseBracket == <<93>>

\* SteeringScope::as_str
ScopeStr(scope) ==
    IF scope = "Global" THEN <<103, 108, 111, 98, 97, 108>>
    ELSE <<112, 114, 111, 106, 101, 99, 116>>

\* ------------------------------------------------------------ byte strings
RECURSIVE JoinBackwards(_, _)
\* Join as it would be if the parts were put together last to first
JoinBackwards(ss, sep) ==
    IF ss = <<>> THEN <<>>
    ELSE IF Len(ss) = 1 THEN ss[1]
    ELSE JoinBackwards(Tail(ss), sep) \o sep \o ss[1]

RECURSIVE Join(_, _)
\* [String]::join(sep)
Join(ss, sep) ==
    IF ss = <<>> THEN <<>>
    ELSE IF Len(ss) = 1 THEN ss[1]
    ELSE ss[1] \o sep \o Join(Tail(ss), sep)

RECURSIVE Decimal(_)
\* Display of an unsigned integer: its decimal digits in ASCII
Decimal(n) == IF n < 10 THEN <<48 + n>> ELSE Decimal(n \div 10) \o <<48 + (n % 10)>>

RECURSIVE LexLess(_, _)
\* Ord for str: byte-wise lexicographic order, a proper prefix is smaller
LexLess(a, b) ==
    IF b = <<>> THEN FALSE
    ELSE IF a = <<>> THEN TRUE
    ELSE IF a[1] # b[1] THEN a[1] < b[1]
    ELSE LexLess(Tail(a), Tail(b))

Take(s, n) == SubSeq(s, 1, IF n < Len(s) THEN n ELSE Len(s))

\* ------------------------------------------------------------------ UTF-8
\* core::str::utf8_char_width
Utf8CharWidth(b) ==
    IF b < 128 THEN 1
    ELSE IF b >= 194 /\ b <= 223 THEN 2
    ELSE IF b >= 224 /\ b <= 239 THEN 3
    ELSE IF b >= 240 /\ b <= 244 THEN 4
    ELSE 0

\* a continuation byte 0x80..0xBF ("as i8 < -64")
IsCont(b) == b >= 128 /\ b <= 191

\* the admissible second byte of a 3- or 4-byte sequence
SecondOk(first, second) ==
    IF first = 224 THEN second >= 160 /\ second <= 191
    ELSE IF first = 237 THEN second >= 128 /\ second <= 159
    ELSE IF first = 240 THEN second >= 144 /\ second <= 191
    ELSE IF first = 244 THEN second >= 128 /\ second <= 143
    ELSE IsCont(second)

Utf8Ok == [error_len |-> 0, incomplete |-> FALSE, ok |-> TRUE, valid_up_to |-> 0]
\* Utf8Error { valid_up_to, error_len }: incomplete stands for error_len = None
Utf8Err(upto, len) ==
    [error_len |-> len, incomplete |-> (len = 0), ok |-> FALSE, valid_up_to |-> upto]

RECURSIVE Utf8From(_, _)
\* run_utf8_validation from the (1-based) position index on
Utf8From(v, index) ==
    IF index > Len(v) THEN Utf8Ok
    ELSE
      LET first == v[index]
          w == Utf8CharWidth(first)
          old == index - 1
          n == Len(v)
      IN  IF w = 1 THEN Utf8From(v, index + 1)
          ELSE IF w = 2 THEN
              IF index + 1 > n THEN Utf8Err(old, 0)
              ELSE IF ~IsCont(v[index + 1]) THEN Utf8Err(old, 1)
              ELSE Utf8From(v, index + 2)
          ELSE IF w = 3 THEN
              IF index + 1 > n THEN Utf8Err(old, 0)
              ELSE IF ~SecondOk(first, v[index + 1]) THEN Utf8Err(old, 1)
              ELSE IF index + 2 > n THEN Utf8Err(old, 0)
              ELSE IF ~IsCont(v[index + 2]) THEN Utf8Err(old, 2)
              ELSE Utf8From(v, index + 3)
          ELSE IF w = 4 THEN
              IF index + 1 > n THEN Utf8Err(old, 0)
              ELSE IF ~SecondOk(first, v[index + 1]) THEN Utf8Err(old, 1)
              ELSE IF index + 2 > n THEN Utf8Err(old, 0)
              ELSE IF ~IsCont(v[index + 2]) THEN Utf8Err(old, 2)
              ELSE IF index + 3 > n THEN Utf8Err(old, 0)
              ELSE IF ~IsCont(v[index + 3]) THEN Utf8Err(old, 3)
              ELSE Utf8From(v, index + 4)
          ELSE Utf8Err(old, 1)

\* String::from_utf8 / str::from_utf8
FromUtf8(v) == Utf8From(v, 1)

RECURSIVE CodePoints(_)
\* str::chars of a valid UTF-8 text
CodePoints(t) ==
    IF t = <<>> THEN <<>>
    ELSE
      LET w == Utf8CharWidth(t[1])
          c == IF w = 1 THEN t[1]
               ELSE IF w = 2 THEN (t[1] - 192) * 64 + (t[2] - 128)
               ELSE IF w = 3 THEN (t[1] - 224) * 4096 + (t[2] - 128) * 64 + (t[3] - 128)
               ELSE (t[1] - 240) * 262144 + (t[2] - 128) * 4096
                    + (t[3] - 128) * 64 + (t[4] - 128)
      IN  <<c>> \o CodePoints(SubSeq(t, w + 1, Len(t)))

\* char::is_whitespace: the Unicode White_Space property
IsWhitespace(c) ==
    \/ c >= 9 /\ c <= 13
    \/ c \in {32, 133, 160, 5760, 8232, 8233, 8239, 8287, 12288}
    \/ c >= 8192 /\ c <= 8202

\* text.trim().is_empty()
TrimIsEmpty(t) == \A i \in DOMAIN CodePoints(t) : IsWhitespace(CodePoints(t)[i])

\* U+FFFD REPLACEMENT CHARACTER in UTF-8
ReplacementChar == <<239, 191, 189>>

RECURSIVE ToStringLossy(_)
\* OsStr::to_string_lossy of a file name (Unix): String::from_utf8_lossy, the
\* valid parts as they are and every invalid sequence replaced by U+FFFD
ToStringLossy(v) ==
    LET r == FromUtf8(v)
    IN  IF r.ok THEN v
        ELSE SubSeq(v, 1, r.valid_up_to) \o ReplacementChar
             \o (IF r.incomplete THEN <<>>
                 ELSE ToStringLossy(SubSeq(v, r.valid_up_to + r.error_len + 1, Len(v))))

\* -------------------------------------------------------------- discovery
\* config.codex_home, an opaque path
CodexHome == [depth |-> 0, form |-> "codex_home"]

\* Path::join of a directory and a relative name
PathJoin(dir, name) == [dir |-> dir, name |-> name]

\* position of the last "." of a file name, 0 when there is none
LastDot(name) ==
    LET dots == {i \in DOMAIN name : name[i] = Dot[1]}
    IN  IF dots = {} THEN 0 ELSE CHOOSE i \in dots : \A j \in dots : j <= i

\* Path::extension of a directory entry: the part after the last dot, none
\* when the name has no dot or only a leading one
Extension(name) ==
    LET p == LastDot(name)
    IN  IF p <= 1 THEN [ext |-> <<>>, some |-> FALSE]
        ELSE [ext |-> SubSeq(name, p + 1, Len(name)), some |-> TRUE]

\* the display path of a candidate
DisplayPath(scope, file_name) ==
    IF scope = "Global"
    THEN CodexHomeVar \o Slash \o GLOBAL_STEERING_DIR \o Slash \o ToStringLossy(file_name)
    ELSE PROJECT_STEERING_DIR \o Slash \o ToStringLossy(file_name)

\* IsCandidate as it would be if the entry's type were taken from metadata,
\* which follows symbolic links, and the link led to a regular file
IsCandidateFollowingLinks(entry) ==
    /\ entry.ok
    /\ Extension(entry.name).some /\ Extension(entry.name).ext = MdExt
    /\ entry.statOk
    /\ entry.kind \in {"file", "symlink"}

\* a directory entry passes the filters of list_md_files
IsCandidate(entry) ==
    /\ entry.ok
    /\ Extension(entry.name).some /\ Extension(entry.name).ext = MdExt
    /\ entry.statOk
    /\ entry.kind = "file"

RECURSIVE ListEntries(_, _, _)
\* the loop of list_md_files over the entries in listing order
ListEntries(entries, dir, scope) ==
    IF entries = <<>> THEN <<>>
    ELSE
      LET entry == Head(entries)
          rest == ListEntries(Tail(entries), dir, scope)
      IN  IF IsCandidate(entry)
          THEN <<[scope |-> scope,
                  display_path |-> DisplayPath(scope, entry.name),
                  path |-> PathJoin(dir, entry.name)]>> \o rest
          ELSE rest

\* ListMdFiles as it would be if every failure of read_dir were taken for a
\* missing directory
ListMdFilesErrorAsMissing(read_dir, dir, scope) ==
    IF read_dir.state \in {"Missing", "Error"}
    THEN [state |-> [msg |-> "", tag |-> "Missing"], files |-> <<>>]
    ELSE [state |-> [msg |-> "", tag |-> "Present"],
          files |-> ListEntries(read_dir.entries, dir, scope)]

\* list_md_files: the directory state and the candidates in listing order
ListMdFiles(read_dir, dir, scope) ==
    IF read_dir.state = "Missing" THEN [state |-> [msg |-> "", tag |-> "Missing"], files |-> <<>>]
    ELSE IF read_dir.state = "Error"
    THEN [state |-> [msg |-> read_dir.msg, tag |-> "Error"], files |-> <<>>]
    ELSE [state |-> [msg |-> "", tag |-> "Present"],
          files |-> ListEntries(read_dir.entries, dir, scope)]

\* where x goes in an ascending list: behind every element not greater than x
InsertByDisplay(sorted, x) ==
    LET before == {i \in DOMAIN sorted : ~LexLess(x.display_path, sorted[i].display_path)}
        k == Cardinality(before)
    IN  SubSeq(sorted, 1, k) \o <<x>> \o SubSeq(sorted, k + 1, Len(sorted))

\* SortByDisplay as it would be without the sort: the listing order
ListingOrder(fs) == fs

RECURSIVE SortByDisplay(_)
\* files.sort_by(|a, b| a.display_path.cmp(&b.display_path)), a stable sort
SortByDisplay(fs) ==
    IF fs = <<>> THEN <<>>
    ELSE InsertByDisplay(SortByDisplay(SubSeq(fs, 1, Len(fs) - 1)), fs[Len(fs)])

\* the assembled candidate list: global files first, project files second
AssembleFiles(global_files, project_files) ==
    SortByDisplay(global_files) \o SortByDisplay(project_files)

\* ---------------------------------------------------- environment answers
\* file names met in the scanned directories: "a.md", "b.md", "c.MD", ".md"
NameA == <<97, 46, 109, 100>>
NameB == <<98, 46, 109, 100>>
NameUpperExt == <<99, 46, 77, 68>>
NameDotMd == <<46, 109, 100>>

Entry(name, kind, statOk) == [ok |-> TRUE, name |-> name, statOk |-> statOk, kind |-> kind]

RegularMd(name) == Entry(name, "file", TRUE)

\* an entry the directory iterator fails to produce
ErrEntry == [ok |-> FALSE, name |-> <<>>, statOk |-> TRUE, kind |-> "file"]

\* entries of the directories of a load run: plain .md files
LoadEntries(scope) ==
    IF scope = "Global" THEN {RegularMd(NameA)} ELSE {RegularMd(NameA), RegularMd(NameB)}

\* entries of the directories of a discovery run: plain .md files, a symbolic
\* link, a directory, a special file (a fifo), other extensions, an entry
\* whose metadata cannot be read and an entry the iterator fails on
AllEntries ==
    {RegularMd(NameA), RegularMd(NameB),
     Entry(NameB, "symlink", TRUE), Entry(NameA, "dir", TRUE), Entry(NameA, "special", TRUE),
     RegularMd(NameUpperExt), RegularMd(NameDotMd),
     Entry(NameA, "file", FALSE), ErrEntry}

\* listings of at most n entries with different names
Listings(pool, n) ==
    {l \in UNION {[1..k -> pool] : k \in 0..n} :
        \A i, j \in DOMAIN l : (i # j /\ l[i].ok /\ l[j].ok) => l[i].name # l[j].name}

\* answers of std::fs::read_dir
ReadDirAnswers(pool, n) ==
    {[entries |-> <<>>, state |-> "Missing", msg |-> ""],
     [entries |-> <<>>, state |-> "Error", msg |-> "EACCES"]}
    \cup {[entries |-> l, state |-> "Present", msg |-> ""] : l \in Listings(pool, n)}

NoReadDir == [entries |-> <<>>, state |-> "None", msg |-> ""]

\* answers of std::fs::metadata(cursor.join(".git")): Ok, an error of kind
\* NotFound, another error
ProbeAnswers == {"exists", "NotFound", "error"}

\* no directory is being walked
NoMarkers == [d \in {} |-> "NotFound"]

\* no file system is kept between calls
NoDisk == [files |-> <<>>, canonical |-> FALSE, dirs |-> <<>>]

\* the bytes steering files are made of: space, "A", a continuation byte
\* (0xA9) and the lead byte of a two-byte character (0xC3)
ContentBytes == {32, 65, 169, 195}

Contents == UNION {[1..n -> ContentBytes] : n \in 0..MaxFileSize}

\* the file of a candidate: its content and what fails on it
FileStates ==
    {[content |-> c, fault |-> f] : f \in {"none", "stat"}, c \in Contents}
    \cup {[content |-> <<>>, fault |-> f] : f \in {"open", "read"}}

NoFile == [content |-> <<>>, fault |-> "nofile"]

\* the settings of a call: the budget is 0 or MaxBytes, the budgets between
\* them are met as what remains of MaxBytes after files were accepted; cwd is
\* one directory below the file system root
Configs ==
    [codex_home : {CodexHome},
     cwd : {[depth |-> 1, form |-> "given"]},
     steering_doc_max_bytes : {0, MaxBytes},
     steering_enabled : BOOLEAN]

\* ----------------------------------------------------------------- loading
Included(bytes, truncated) ==
    [msg |-> "", tag |-> "Included", bytes |-> bytes, truncated |-> truncated, reason |-> ""]

Omitted(reason, msg) ==
    [msg |-> msg, tag |-> "Omitted", bytes |-> 0, truncated |-> FALSE, reason |-> reason]

\* a SteeringFileOutcome for a candidate
Outcome(file, status) ==
    [scope |-> file.scope, display_path |-> file.display_path, path |-> file.path,
     status |-> status]

\* the short-circuit's outcome list: every candidate Omitted{Disabled}
DisabledOutcomes(files) ==
    [i \in DOMAIN files |-> Outcome(files[i], Omitted("Disabled", ""))]

\* u64::saturating_sub
SaturatingSub(a, b) == IF a >= b THEN a - b ELSE 0

\* file_handle.metadata().map(|md| md.len()).unwrap_or(0)
FileSize(f) == IF f.fault = "stat" THEN 0 ELSE Len(f.content)

\* ReadData as it would be without the take(remaining) cap
ReadWholeFile(f, remaining) == f.content

\* ReadData as it would be if take were given one byte less than remaining
ReadDataShort(f, remaining) == Take(f.content, SaturatingSub(remaining, 1))

\* BufReader::new(file_handle).take(remaining) read to its end
ReadData(f, remaining) == Take(f.content, remaining)

\* TruncatedByBudget as it would be with >= for >
TruncatedAtBudget(f, remaining) == FileSize(f) >= remaining

\* truncated_by_budget = file_size > remaining
TruncatedByBudget(f, remaining) == FileSize(f) > remaining

\* DecodeText as it would be if the valid prefix were taken whether or not the
\* read was cut by the budget
DecodeTextLenient(data, truncated_by_budget) ==
    LET r == FromUtf8(data)
    IN  IF r.ok THEN [ok |-> TRUE, text |-> data]
        ELSE IF r.incomplete
        THEN [ok |-> TRUE, text |-> SubSeq(data, 1, r.valid_up_to)]
        ELSE [ok |-> FALSE, text |-> <<>>]

\* the text decoded from the bytes read: valid data as it is, or, when the
\* read was cut by the budget and the data ends inside a character, the
\* valid prefix; ok = FALSE stands for the NonUtf8 exits
DecodeText(data, truncated_by_budget) ==
    LET r == FromUtf8(data)
    IN  IF r.ok THEN [ok |-> TRUE, text |-> data]
        ELSE IF truncated_by_budget /\ r.incomplete
        THEN LET prefix == SubSeq(data, 1, r.valid_up_to)
             IN  IF FromUtf8(prefix).ok THEN [ok |-> TRUE, text |-> prefix]
                 ELSE [ok |-> FALSE, text |-> <<>>]
        ELSE [ok |-> FALSE, text |-> <<>>]

\* Header as it would be without the truncation mark
HeaderUnmarked(file, truncated_by_budget) ==
    HeaderOpen \o ScopeStr(file.scope) \o HeaderFile \o file.display_path \o CloseBracket

\* the header line of an accepted block
Header(file, truncated_by_budget) ==
    HeaderOpen \o ScopeStr(file.scope) \o HeaderFile \o file.display_path
    \o (IF truncated_by_budget THEN HeaderTruncated ELSE <<>>) \o CloseBracket

\* Branch as it would be if the text were tested for emptiness without trim
BranchUntrimmed(remaining, f) ==
    IF remaining = 0 THEN "OverBudget"
    ELSE IF f.fault = "open" THEN "Io"
    ELSE IF f.fault = "read" THEN "ReadError"
    ELSE LET d == DecodeText(ReadData(f, remaining), TruncatedByBudget(f, remaining))
         IN  IF ~d.ok THEN "NonUtf8"
             ELSE IF d.text = <<>> THEN "Empty"
             ELSE "Included"

\* Branch as it would be if a failed open were propagated with "?"
BranchOpenPropagated(remaining, f) ==
    IF remaining = 0 THEN "OverBudget"
    ELSE IF f.fault \in {"open", "read"} THEN "ReadError"
    ELSE LET d == DecodeText(ReadData(f, remaining), TruncatedByBudget(f, remaining))
         IN  IF ~d.ok THEN "NonUtf8"
             ELSE IF TrimIsEmpty(d.text) THEN "Empty"
             ELSE "Included"

\* Branch as it would be if the file were opened before the budget is tested
BranchOpenFirst(remaining, f) ==
    IF f.fault = "open" THEN "Io"
    ELSE IF remaining = 0 THEN "OverBudget"
    ELSE IF f.fault = "read" THEN "ReadError"
    ELSE LET d == DecodeText(ReadData(f, remaining), TruncatedByBudget(f, remaining))
         IN  IF ~d.ok THEN "NonUtf8"
             ELSE IF TrimIsEmpty(d.text) THEN "Empty"
             ELSE "Included"

\* which exit of the loop body a candidate takes
Branch(remaining, f) ==
    IF remaining = 0 THEN "OverBudget"
    ELSE IF f.fault = "open" THEN "Io"
    ELSE IF f.fault = "read" THEN "ReadError"
    ELSE LET d == DecodeText(ReadData(f, remaining), TruncatedByBudget(f, remaining))
         IN  IF ~d.ok THEN "NonUtf8"
             ELSE IF TrimIsEmpty(d.text) THEN "Empty"
             ELSE "Included"

\* the exits of the loop body
Branches == {"OverBudget", "Io", "ReadError", "NonUtf8", "Empty", "Included"}

\* the files on which the loop body takes each exit, by the remaining budget
FilesTaking ==
    [remaining \in 0..MaxBytes |->
        [branch \in Branches |-> {f \in FileStates : Branch(remaining, f) = branch}]]

\* Omit as it would be if an empty file were skipped without an outcome
OmitUnlessEmpty(st, file, reason, msg) ==
    IF reason = "Empty" THEN st
    ELSE [st EXCEPT !.outcomes = Append(@, Outcome(file, Omitted(reason, msg)))]

\* the loop state after a candidate that was omitted
Omit(st, file, reason, msg) ==
    [st EXCEPT !.outcomes = Append(@, Outcome(file, Omitted(reason, msg)))]

\* OmitIo as it would be if a failed open were charged one byte of budget
OmitIoCharged(st, file) ==
    [st EXCEPT !.outcomes = Append(@, Outcome(file, Omitted("Io", "open failed"))),
               !.opens = @ + 1,
               !.remaining = SaturatingSub(@, 1)]

\* the loop state after a candidate whose open failed
OmitIo(st, file) == [Omit(st, file, "Io", "open failed") EXCEPT !.opens = @ + 1]

\* Accept as it would be without the decrement of remaining
AcceptUncharged(st, file, f) ==
    LET truncated_by_budget == TruncatedByBudget(f, st.remaining)
        text == DecodeText(ReadData(f, st.remaining), truncated_by_budget).text
    IN  [remaining |-> st.remaining,
         outcomes |-> Append(st.outcomes,
                             Outcome(file, Included(Len(text), truncated_by_budget))),
         opens |-> st.opens + 1,
         parts |-> Append(st.parts, Header(file, truncated_by_budget) \o NL \o text)]

\* the loop state after a candidate that was accepted
Accept(st, file, f) ==
    LET truncated_by_budget == TruncatedByBudget(f, st.remaining)
        text == DecodeText(ReadData(f, st.remaining), truncated_by_budget).text
        included_bytes == Len(text)
    IN  [remaining |-> SaturatingSub(st.remaining, included_bytes),
         outcomes |-> Append(st.outcomes,
                             Outcome(file, Included(included_bytes, truncated_by_budget))),
         opens |-> st.opens + 1,
         parts |-> Append(st.parts, Header(file, truncated_by_budget) \o NL \o text)]

\* LoopBody as it would be if the bytes read from a file that is then
\* omitted were charged to the budget
LoopBodyChargingReads(st, file, f) ==
    LET b == Branch(st.remaining, f)
        charged == SaturatingSub(st.remaining, Len(ReadData(f, st.remaining)))
    IN  IF b = "OverBudget" THEN Omit(st, file, "OverBudget", "")
        ELSE IF b = "Io" THEN OmitIo(st, file)
        ELSE IF b = "ReadError" THEN [st EXCEPT !.opens = @ + 1]
        ELSE IF b = "NonUtf8"
        THEN [Omit(st, file, "NonUtf8", "") EXCEPT !.opens = @ + 1, !.remaining = charged]
        ELSE IF b = "Empty"
        THEN [Omit(st, file, "Empty", "") EXCEPT !.opens = @ + 1, !.remaining = charged]
        ELSE Accept(st, file, f)

\* one pass of the loop body over a candidate whose file is f
LoopBody(st, file, f) ==
    LET b == Branch(st.remaining, f)
    IN  IF b = "OverBudget" THEN Omit(st, file, "OverBudget", "")
        ELSE IF b = "Io" THEN OmitIo(st, file)
        ELSE IF b = "ReadError" THEN [st EXCEPT !.opens = @ + 1]
        ELSE IF b = "NonUtf8" THEN [Omit(st, file, "NonUtf8", "") EXCEPT !.opens = @ + 1]
        ELSE IF b = "Empty" THEN [Omit(st, file, "Empty", "") EXCEPT !.opens = @ + 1]
        ELSE Accept(st, file, f)

\* IsOverBudget as it would be if every omitted file were taken for the note
IsOmission(outcome) == outcome.status.tag = "Omitted"

\* the filter of omitted_over_budget
IsOverBudget(outcome) ==
    outcome.status.tag = "Omitted" /\ outcome.status.reason = "OverBudget"

\* format_omission_note
FormatOmissionNote(max_bytes, omitted) ==
    LET first == <<NoteTitle,
                   NoteOmitted \o Decimal(Len(omitted)) \o NoteDueTo \o Decimal(max_bytes) \o Dot>>
        lines == [i \in DOMAIN omitted |->
                    NoteLineScope \o ScopeStr(omitted[i].scope) \o HeaderFile
                    \o omitted[i].display_path \o NoteLineReason]
    IN  Join(first \o lines, NL)

\* Combine as it would be if the parts were joined whether or not there are any
CombineAlways(max_bytes, parts, outcomes) ==
    LET joined == [some |-> TRUE, text |-> Join(parts, NL \o NL)]
        omitted_over_budget == SelectSeq(outcomes, IsOverBudget)
    IN  IF omitted_over_budget = <<>> THEN joined
        ELSE [some |-> TRUE,
              text |-> joined.text \o NL \o NL
                       \o FormatOmissionNote(max_bytes, omitted_over_budget)]

\* the combined text built after the loop
Combine(max_bytes, parts, outcomes) ==
    LET joined == IF parts = <<>> THEN [some |-> FALSE, text |-> <<>>]
                  ELSE [some |-> TRUE, text |-> Join(parts, NL \o NL)]
        omitted_over_budget == SelectSeq(outcomes, IsOverBudget)
    IN  IF omitted_over_budget = <<>> THEN joined
        ELSE LET note == FormatOmissionNote(max_bytes, omitted_over_budget)
             IN  IF joined.some THEN [some |-> TRUE, text |-> joined.text \o NL \o NL \o note]
                 ELSE [some |-> TRUE, text |-> note]

NoCombined == [some |-> FALSE, text |-> <<>>]
NoResult == [kind |-> "None", files |-> <<>>, max_bytes |-> 0, combined |-> NoCombined,
             enabled |-> FALSE, error |-> ""]
ErrResult(error) ==
    [kind |-> "Err", files |-> <<>>, max_bytes |-> 0,
     combined |-> [some |-> FALSE, text |-> <<>>], enabled |-> FALSE, error |-> error]
OkResult(enabled, max_bytes, files, combined) ==
    [kind |-> "Ok", files |-> files, max_bytes |-> max_bytes, combined |-> combined,
     enabled |-> enabled, error |-> ""]

NoPath == [depth |-> 0, form |-> "none"]
NoScan == [state |-> [msg |-> "", tag |-> "None"], files |-> <<>>]
NoDiscovery ==
    [files |-> <<>>, codex_home |-> NoPath,
     global_dir |-> PathJoin(NoPath, <<>>), global_dir_state |-> NoScan.state,
     project_dir |-> PathJoin(NoPath, <<>>), project_dir_state |-> NoScan.state,
     repo_root |-> NoPath]
NoLoop == [remaining |-> 0, outcomes |-> <<>>, opens |-> 0, parts |-> <<>>]

\* ------------------------------------------------------------------ state
VARIABLES
    pc,           \* position in load_steering_docs
    config,       \* the Config of the call
    git_markers,  \* the file system: what the probe of <dir>/.git answers for the
                  \* directory at each depth of the chain of cwd, while the walk runs
    cursor,       \* discover_repo_root: the directory probed next, while it walks
    repo_root,    \* the result of discover_repo_root, until the discovery holds it
    read_dir,     \* list_md_files: what read_dir answered for each directory
    global_scan,  \* (global_state, global_files) of discover_steering_files
    discovery,    \* the SteeringDiscovery
    idx,          \* position of the loop in discovery.files
    loop,         \* remaining, parts, outcomes of the loop; opens counts File::open
    cur,          \* the file of the candidate of the current pass of the loop
    absent,       \* the loop state of a load without the candidates whose open failed
    result,       \* what load_steering_docs returned
    disk,         \* the file system of repeated calls: directories and files
    runs          \* what the calls made against disk returned, in order

vars == <<pc, config, git_markers, cursor, repo_root, read_dir, global_scan, discovery, idx, loop,
          cur, absent, result, disk, runs>>

Init ==
    /\ pc = "start"
    /\ config \in Configs
    /\ git_markers \in [0..config.cwd.depth -> ProbeAnswers]
    /\ cursor = NoPath
    /\ repo_root = NoPath
    /\ read_dir = [Global |-> NoReadDir, Project |-> NoReadDir]
    /\ global_scan = NoScan
    /\ discovery = NoDiscovery
    /\ idx = 0
    /\ loop = NoLoop
    /\ cur = NoFile
    /\ absent = NoLoop
    /\ result = NoResult
    /\ disk = NoDisk
    /\ runs = <<>>

\* --------------------------------------------------- discover_repo_root
Parent(path) == [path EXCEPT !.depth = @ - 1]

\* normalize_path(cwd), used when it succeeds
Normalize ==
    /\ pc = "start"
    /\ \E canon \in BOOLEAN :
         cursor' = IF canon THEN [depth |-> config.cwd.depth, form |-> "canonical"]
                   ELSE config.cwd
    /\ pc' = "walk"
    /\ UNCHANGED <<config, disk, runs, git_markers, repo_root, read_dir, global_scan, discovery, idx, loop, cur,
                   absent, result>>

\* one pass of the upward walk: the metadata probe of cursor/.git
ProbeGit ==
    /\ pc = "walk"
    /\ cursor.depth > 0
    /\ LET probe == git_markers[cursor.depth]
       IN  IF probe = "exists"
           THEN /\ repo_root' = cursor
                /\ cursor' = NoPath
                /\ git_markers' = NoMarkers
                /\ pc' = "listGlobal"
                /\ UNCHANGED result
           ELSE IF probe = "NotFound"
           THEN /\ cursor' = Parent(cursor)
                /\ UNCHANGED <<pc, git_markers, repo_root, result>>
           ELSE /\ pc' = "failed"
                /\ result' = ErrResult("git marker probe")
                /\ git_markers' = NoMarkers
                /\ UNCHANGED <<cursor, repo_root>>
    /\ UNCHANGED <<config, disk, runs, read_dir, global_scan, discovery, idx, loop, cur, absent>>

\* the walk reached a path without parent: the root is cwd as given
WalkEnds ==
    /\ pc = "walk"
    /\ cursor.depth = 0
    /\ repo_root' = config.cwd
    /\ cursor' = NoPath
    /\ git_markers' = NoMarkers
    /\ pc' = "listGlobal"
    /\ UNCHANGED <<config, disk, runs, read_dir, global_scan, discovery, idx, loop, cur, absent, result>>

\* ----------------------------------------------- discover_steering_files
GlobalDir == PathJoin(config.codex_home, GLOBAL_STEERING_DIR)
ProjectDir == PathJoin(repo_root, PROJECT_STEERING_DIR)

\* list_md_files(&global_dir, Global) with the answer rd of read_dir
ScanGlobal(rd) ==
    /\ pc = "listGlobal"
    /\ read_dir' = [read_dir EXCEPT !.Global = rd]
    /\ global_scan' = ListMdFiles(rd, GlobalDir, "Global")
    /\ pc' = "listProject"
    /\ UNCHANGED <<config, disk, runs, git_markers, cursor, repo_root, discovery, idx, loop, cur, absent, result>>

\* list_md_files(&project_dir, Project) with the answer rd of read_dir, the
\* two sorts and the assembly of the SteeringDiscovery
ScanProject(rd) ==
    /\ pc = "listProject"
    /\ read_dir' = [read_dir EXCEPT !.Project = rd]
    /\ LET project_scan == ListMdFiles(rd, ProjectDir, "Project")
       IN  discovery' = [files |-> AssembleFiles(global_scan.files, project_scan.files),
                         codex_home |-> config.codex_home,
                         global_dir |-> GlobalDir,
                         global_dir_state |-> global_scan.state,
                         project_dir |-> ProjectDir,
                         project_dir_state |-> project_scan.state,
                         repo_root |-> repo_root]
    /\ global_scan' = NoScan
    /\ repo_root' = NoPath
    /\ pc' = "discovered"
    /\ UNCHANGED <<config, disk, runs, git_markers, cursor, idx, loop, cur, absent, result>>

\* a load run: directories of plain .md files
ListGlobal == \E rd \in ReadDirAnswers(LoadEntries("Global"), 1) : ScanGlobal(rd)
ListProject == \E rd \in ReadDirAnswers(LoadEntries("Project"), 2) : ScanProject(rd)

\* a discovery run: directories with every kind of entry
DiscoverGlobal == \E rd \in ReadDirAnswers(AllEntries, MaxEntries) : ScanGlobal(rd)
DiscoverProject == \E rd \in ReadDirAnswers(AllEntries, MaxEntries) : ScanProject(rd)

\* ---------------------------------------------------- load_steering_docs
\* Enabled as it would be without the test max_bytes == 0
EnabledFlagOnly == config.steering_enabled

\* the negation of the short-circuit's condition
Enabled == config.steering_enabled /\ config.steering_doc_max_bytes # 0

\* the early return when steering is off or the budget is zero
ShortCircuit ==
    /\ pc = "discovered"
    /\ ~Enabled
    /\ result' = OkResult(FALSE, config.steering_doc_max_bytes,
                          DisabledOutcomes(discovery.files), NoCombined)
    /\ pc' = "done"
    /\ read_dir' = [Global |-> NoReadDir, Project |-> NoReadDir]
    /\ UNCHANGED <<config, disk, runs, git_markers, cursor, repo_root, global_scan, discovery, idx, loop, cur, absent>>

\* the loop is set up: remaining = max_bytes, no parts, no outcomes
BeginLoop ==
    /\ pc = "discovered"
    /\ Enabled
    /\ loop' = [remaining |-> config.steering_doc_max_bytes, outcomes |-> <<>>,
                opens |-> 0, parts |-> <<>>]
    /\ absent' = loop'
    /\ idx' = 1
    /\ pc' = "loop"
    /\ read_dir' = [Global |-> NoReadDir, Project |-> NoReadDir]
    /\ UNCHANGED <<config, disk, runs, git_markers, cursor, repo_root, global_scan, discovery, cur, result>>

\* one pass of the loop body over the candidate at idx, whose file is found in
\* the state f and which takes the exit named branch
Iteration(branch) ==
    /\ pc = "loop"
    /\ idx <= Len(discovery.files)
    /\ \E f \in FilesTaking[loop.remaining][branch] :
         /\ cur' = f
         /\ loop' = LoopBody(loop, discovery.files[idx], f)
         /\ absent' = IF branch = "Io" THEN absent
                      ELSE LoopBody(absent, discovery.files[idx], f)
    /\ UNCHANGED <<config, disk, runs, git_markers, cursor, repo_root, read_dir, global_scan, discovery, idx>>

Continue == pc' = "iterated" /\ UNCHANGED result

OverBudgetSkip == Iteration("OverBudget") /\ Continue
OpenFails == Iteration("Io") /\ Continue
OmitNonUtf8 == Iteration("NonUtf8") /\ Continue
OmitEmpty == Iteration("Empty") /\ Continue
Include == Iteration("Included") /\ Continue

\* read_to_end fails: the error is returned, the load yields nothing
ReadFails ==
    /\ Iteration("ReadError")
    /\ result' = ErrResult("read")
    /\ pc' = "failed"

\* the pass ends: the file handle and the data are dropped, the iterator
\* moves to the next candidate
EndIteration ==
    /\ pc = "iterated"
    /\ cur' = NoFile
    /\ idx' = idx + 1
    /\ pc' = "loop"
    /\ UNCHANGED <<config, disk, runs, git_markers, cursor, repo_root, read_dir, global_scan, discovery, loop,
                   absent, result>>

\* after the last candidate: the combined text and the LoadResult
Finish ==
    /\ pc = "loop"
    /\ idx > Len(discovery.files)
    /\ result' = OkResult(TRUE, config.steering_doc_max_bytes, loop.outcomes,
                          Combine(config.steering_doc_max_bytes, loop.parts, loop.outcomes))
    /\ pc' = "done"
    /\ UNCHANGED <<config, disk, runs, git_markers, cursor, repo_root, read_dir, global_scan, discovery, idx, loop,
                   cur, absent>>

Next ==
    \/ Normalize \/ ProbeGit \/ WalkEnds
    \/ ListGlobal \/ ListProject
    \/ ShortCircuit \/ BeginLoop
    \/ OverBudgetSkip \/ OpenFails \/ ReadFails \/ OmitNonUtf8 \/ OmitEmpty \/ Include
    \/ EndIteration \/ Finish

Spec == Init /\ [][Next]_vars

\* discovery alone, over directories with every kind of entry
NextDiscover == Normalize \/ ProbeGit \/ WalkEnds \/ DiscoverGlobal \/ DiscoverProject

\* the loader's settings play no role in discovery: one setting is enough
InitDiscover ==
    /\ Init
    /\ config.steering_enabled
    /\ config.steering_doc_max_bytes = MaxBytes

SpecDiscover == InitDiscover /\ [][NextDiscover]_vars

\* discover_repo_root alone, from a cwd of up to MaxDepth components
NextRoot == Normalize \/ ProbeGit \/ WalkEnds

InitRoot ==
    /\ pc = "start"
    /\ config \in [codex_home : {CodexHome},
                    cwd : {[depth |-> d, form |-> "given"] : d \in 0..MaxDepth},
                    steering_doc_max_bytes : {MaxBytes},
                    steering_enabled : {TRUE}]
    /\ git_markers \in [0..config.cwd.depth -> ProbeAnswers]
    /\ cursor = NoPath
    /\ repo_root = NoPath
    /\ read_dir = [Global |-> NoReadDir, Project |-> NoReadDir]
    /\ global_scan = NoScan
    /\ discovery = NoDiscovery
    /\ idx = 0
    /\ loop = NoLoop
    /\ cur = NoFile
    /\ absent = NoLoop
    /\ result = NoResult
    /\ disk = NoDisk
    /\ runs = <<>>

SpecRoot == InitRoot /\ [][NextRoot]_vars

\* ------------------------------------------- a call as one step, repeated
RECURSIVE WalkUp(_, _, _)
\* the while loop of discover_repo_root from cursor on
WalkUp(from, markers, cwd) ==
    IF from.depth = 0 THEN [ok |-> TRUE, path |-> cwd]
    ELSE IF markers[from.depth] = "exists" THEN [ok |-> TRUE, path |-> from]
    ELSE IF markers[from.depth] = "NotFound" THEN WalkUp(Parent(from), markers, cwd)
    ELSE [ok |-> FALSE, path |-> NoPath]

\* discover_repo_root; canon: normalize_path succeeds
DiscoverRepoRoot(cwd, canon, markers) ==
    WalkUp(IF canon THEN [depth |-> cwd.depth, form |-> "canonical"] ELSE cwd, markers, cwd)

\* discover_steering_files below the root, with the answers rd of read_dir
DiscoverSteeringFiles(cfg, root, rd) ==
    LET global_dir == PathJoin(cfg.codex_home, GLOBAL_STEERING_DIR)
        project_dir == PathJoin(root, PROJECT_STEERING_DIR)
        global_listed == ListMdFiles(rd.Global, global_dir, "Global")
        project_listed == ListMdFiles(rd.Project, project_dir, "Project")
    IN  [files |-> AssembleFiles(global_listed.files, project_listed.files),
         codex_home |-> cfg.codex_home,
         global_dir |-> global_dir,
         global_dir_state |-> global_listed.state,
         project_dir |-> project_dir,
         project_dir_state |-> project_listed.state,
         repo_root |-> root]

RECURSIVE LoadLoop(_, _, _, _)
\* the for loop of load_steering_docs from the k-th candidate on; file_of
\* gives the file of a candidate by scope and name
LoadLoop(st, files, k, file_of) ==
    IF k > Len(files) THEN [ok |-> TRUE, st |-> st]
    ELSE LET f == file_of[<<files[k].scope, files[k].path.name>>]
         IN  IF Branch(st.remaining, f) = "ReadError" THEN [ok |-> FALSE, st |-> st]
             ELSE LoadLoop(LoopBody(st, files[k], f), files, k + 1, file_of)

\* load_steering_docs against the file system dk, with the answers rd of
\* read_dir: the SteeringLoadResult, its discovery apart, or the error
LoadSteeringDocs(cfg, markers, dk, rd) ==
    LET root == DiscoverRepoRoot(cfg.cwd, dk.canonical, markers)
        max_bytes == cfg.steering_doc_max_bytes
    IN  IF ~root.ok
        THEN [discovery |-> NoDiscovery, result |-> ErrResult("git marker probe")]
        ELSE
          LET found == DiscoverSteeringFiles(cfg, root.path, rd)
          IN  IF ~cfg.steering_enabled \/ max_bytes = 0
              THEN [discovery |-> found,
                    result |-> OkResult(FALSE, max_bytes, DisabledOutcomes(found.files),
                                        NoCombined)]
              ELSE
                LET end == LoadLoop([remaining |-> max_bytes, outcomes |-> <<>>,
                                     opens |-> 0, parts |-> <<>>],
                                    found.files, 1, dk.files)
                IN  IF ~end.ok
                    THEN [discovery |-> NoDiscovery, result |-> ErrResult("read")]
                    ELSE [discovery |-> found,
                          result |-> OkResult(TRUE, max_bytes, end.st.outcomes,
                                              Combine(max_bytes, end.st.parts,
                                                      end.st.outcomes))]

\* file names that are not valid UTF-8: 0xFF ".md" and 0xFE ".md"
NameInvalidFF == <<255, 46, 109, 100>>
NameInvalidFE == <<254, 46, 109, 100>>

\* the files a directory of the disk may hold
DiskPool(scope) ==
    IF scope = "Global" THEN {RegularMd(NameInvalidFF), RegularMd(NameInvalidFE)}
    ELSE {RegularMd(NameA), RegularMd(NameB)}

\* a directory of the disk: missing, unreadable, or a set of entries
DiskDirs(scope) ==
    {[entries |-> {}, state |-> "Missing", msg |-> ""],
     [entries |-> {}, state |-> "Error", msg |-> "EACCES"]}
    \cup {[entries |-> es, state |-> "Present", msg |-> ""] : es \in SUBSET DiskPool(scope)}

\* the files of the disk: "A", "AA", one that does not open, one whose read
\* fails
DiskFiles ==
    {[content |-> <<65>>, fault |-> "none"], [content |-> <<65, 65>>, fault |-> "none"],
     [content |-> <<>>, fault |-> "open"], [content |-> <<>>, fault |-> "read"]}

\* scope and name of the entries of two directories
FileKeys(global, project) ==
    {<<"Global", e.name>> : e \in global.entries}
    \cup {<<"Project", e.name>> : e \in project.entries}

\* the file systems of repeated calls
Disks ==
    UNION {{[files |-> fs, canonical |-> c, dirs |-> [Global |-> d[1], Project |-> d[2]]] :
               c \in BOOLEAN, fs \in [FileKeys(d[1], d[2]) -> DiskFiles]} :
           d \in DiskDirs("Global") \X DiskDirs("Project")}

\* the orders in which read_dir may list a directory of the disk
ListingsOf(dir) ==
    {[entries |-> q, state |-> dir.state, msg |-> dir.msg] :
        q \in {l \in [1..Cardinality(dir.entries) -> dir.entries] :
                  \A i, j \in DOMAIN l : i # j => l[i] # l[j]}}

\* a call of load_steering_docs against the disk
Call ==
    /\ \E g \in ListingsOf(disk.dirs.Global), p \in ListingsOf(disk.dirs.Project) :
         runs' = Append(runs, LoadSteeringDocs(config, git_markers, disk,
                                               [Global |-> g, Project |-> p]))
    /\ UNCHANGED <<pc, config, git_markers, cursor, repo_root, read_dir, global_scan,
                   discovery, idx, loop, cur, absent, result, disk>>

FirstRun == runs = <<>> /\ Call
Rerun == Len(runs) = 1 /\ Call

NextRerun == FirstRun \/ Rerun

\* a disk and any settings
InitRerun ==
    /\ pc = "start"
    /\ config \in Configs
    /\ git_markers \in [0..config.cwd.depth -> ProbeAnswers]
    /\ cursor = NoPath
    /\ repo_root = NoPath
    /\ read_dir = [Global |-> NoReadDir, Project |-> NoReadDir]
    /\ global_scan = NoScan
    /\ discovery = NoDiscovery
    /\ idx = 0
    /\ loop = NoLoop
    /\ cur = NoFile
    /\ absent = NoLoop
    /\ result = NoResult
    /\ disk \in Disks
    /\ runs = <<>>

SpecRerun == InitRerun /\ [][NextRerun]_vars

\* ------------------------- the loop with a budget wider than a character
\* a budget that leaves room for text before a character of four bytes
WideBudget == MaxBytes + 3

\* "A", a continuation byte (0x9F) and the lead byte of a four-byte
\* character (0xF0)
WideBytes == {65, 159, 240}

\* files up to one byte longer than the budget
WideContents == UNION {[1..n -> WideBytes] : n \in 0..(WideBudget + 1)}

WideFileStates ==
    {[content |-> c, fault |-> f] : f \in {"none", "stat"}, c \in WideContents}
    \cup {[content |-> <<>>, fault |-> f] : f \in {"open", "read"}}

WideFilesTaking ==
    [remaining \in 0..WideBudget |->
        [branch \in Branches |-> {f \in WideFileStates : Branch(remaining, f) = branch}]]

\* one pass of the loop body over the candidate at idx, as Iteration
WideIteration(branch) ==
    /\ pc = "loop"
    /\ idx <= Len(discovery.files)
    /\ \E f \in WideFilesTaking[loop.remaining][branch] :
         /\ cur' = f
         /\ loop' = LoopBody(loop, discovery.files[idx], f)
         /\ absent' = IF branch = "Io" THEN absent
                      ELSE LoopBody(absent, discovery.files[idx], f)
    /\ UNCHANGED <<config, disk, runs, git_markers, cursor, repo_root, read_dir, global_scan, discovery, idx>>

WideOverBudgetSkip == WideIteration("OverBudget") /\ Continue
WideOpenFails == WideIteration("Io") /\ Continue
WideOmitNonUtf8 == WideIteration("NonUtf8") /\ Continue
WideOmitEmpty == WideIteration("Empty") /\ Continue
WideInclude == WideIteration("Included") /\ Continue

WideReadFails ==
    /\ WideIteration("ReadError")
    /\ result' = ErrResult("read")
    /\ pc' = "failed"

NextWide ==
    \/ BeginLoop
    \/ WideOverBudgetSkip \/ WideOpenFails \/ WideReadFails \/ WideOmitNonUtf8 \/ WideOmitEmpty
    \/ WideInclude
    \/ EndIteration \/ Finish

\* the directories of a wide load: one plain .md file in each
WideReadDir ==
    [Global |-> [entries |-> <<RegularMd(NameA)>>, state |-> "Present", msg |-> ""],
     Project |-> [entries |-> <<RegularMd(NameA)>>, state |-> "Present", msg |-> ""]]

\* the state after discover_steering_files returned, with steering enabled
\* and a budget from 1 to WideBudget
InitWide ==
    /\ pc = "discovered"
    /\ config \in [codex_home : {CodexHome},
                    cwd : {[depth |-> 1, form |-> "given"]},
                    steering_doc_max_bytes : 1..WideBudget,
                    steering_enabled : {TRUE}]
    /\ git_markers = NoMarkers
    /\ cursor = NoPath
    /\ repo_root = NoPath
    /\ read_dir = WideReadDir
    /\ global_scan = NoScan
    /\ discovery = DiscoverSteeringFiles(config, config.cwd, WideReadDir)
    /\ idx = 0
    /\ loop = NoLoop
    /\ cur = NoFile
    /\ absent = NoLoop
    /\ result = NoResult
    /\ disk = NoDisk
    /\ runs = <<>>

SpecWide == InitWide /\ [][NextWide]_vars

\* ------------------------------------------------------------ properties
Last(q) == q[Len(q)]

IsIncluded(outcome) == outcome.status.tag = "Included"

HasReason(outcome, reason) ==
    outcome.status.tag = "Omitted" /\ outcome.status.reason = reason

RECURSIVE SumIncluded(_)
\* the sum of bytes over the Included outcomes of a list
SumIncluded(outcomes) ==
    IF outcomes = <<>> THEN 0
    ELSE (IF IsIncluded(Head(outcomes)) THEN Head(outcomes).status.bytes ELSE 0)
         + SumIncluded(Tail(outcomes))

\* C1: every successful load returns one outcome per discovered candidate,
\* in discovery order: the i-th outcome carries the scope, path and display
\* path of the i-th candidate, on the short-circuit and on the normal path.
C1_OneOutcomePerCandidate ==
    result.kind = "Ok" =>
        /\ Len(result.files) = Len(discovery.files)
        /\ \A i \in DOMAIN discovery.files :
             /\ result.files[i].scope = discovery.files[i].scope
             /\ result.files[i].path = discovery.files[i].path
             /\ result.files[i].display_path = discovery.files[i].display_path

\* a completed load of three candidates with an accepted file, an empty one
\* and one whose open failed
C1_Witness ==
    /\ result.kind = "Ok" /\ result.enabled
    /\ Len(discovery.files) = 3
    /\ \E i, j, k \in DOMAIN result.files :
         /\ IsIncluded(result.files[i])
         /\ HasReason(result.files[j], "Empty")
         /\ HasReason(result.files[k], "Io")

\* C2: while the loop runs, remaining = max_bytes minus the bytes of the
\* Included outcomes recorded so far and is never negative; the bytes read
\* from a file never exceed the remaining budget; a returned result includes
\* at most max_bytes bytes.
C2_BudgetAccounting ==
    /\ pc \in {"loop", "iterated"} =>
         /\ loop.remaining >= 0
         /\ loop.remaining = config.steering_doc_max_bytes - SumIncluded(loop.outcomes)
    /\ (pc = "iterated" /\ cur.fault \in {"none", "stat"}) =>
         LET before == config.steering_doc_max_bytes
                       - SumIncluded(SubSeq(loop.outcomes, 1, Len(loop.outcomes) - 1))
         IN  /\ Len(ReadData(cur, before)) <= before
             /\ IsIncluded(Last(loop.outcomes)) => Last(loop.outcomes).status.bytes <= before
    /\ result.kind = "Ok" => SumIncluded(result.files) <= config.steering_doc_max_bytes

\* a completed load that spent its whole budget on two files
C2_Witness ==
    /\ result.kind = "Ok"
    /\ config.steering_doc_max_bytes = MaxBytes
    /\ SumIncluded(result.files) = MaxBytes
    /\ Cardinality({i \in DOMAIN result.files : IsIncluded(result.files[i])}) >= 2

\* the bytes consumed by the candidates before the current pass
Consumed == config.steering_doc_max_bytes - loop.remaining

\* the longest prefix of data that is valid UTF-8
LongestValidPrefix(data) ==
    LET ks == {k \in 0..Len(data) : FromUtf8(SubSeq(data, 1, k)).ok}
    IN  SubSeq(data, 1, CHOOSE k \in ks : \A j \in ks : j <= k)

\* a pass of the loop over a candidate
Pass == pc = "loop" /\ pc' \in {"iterated", "failed"}

\* a pass over a file that opens, stats and reads, is valid UTF-8 and contains
\* non-whitespace text
PassOverTextFile ==
    /\ Pass
    /\ cur'.fault = "none"
    /\ FromUtf8(cur'.content).ok
    /\ ~TrimIsEmpty(cur'.content)

C4_DisabledShortCircuit ==
    (~config.steering_enabled \/ config.steering_doc_max_bytes = 0) =>
        /\ pc \notin {"loop", "iterated"}
        /\ loop.opens = 0
        /\ result.kind = "Ok" =>
             /\ ~result.enabled
             /\ ~result.combined.some
             /\ Len(result.files) = Len(discovery.files)
             /\ \A i \in DOMAIN result.files : result.files[i].status = Omitted("Disabled", "")

\* a load of three candidates with steering enabled and a budget of 0
C4_Witness ==
    /\ result.kind = "Ok"
    /\ config.steering_enabled /\ config.steering_doc_max_bytes = 0
    /\ Len(result.files) = 3

\* the candidates among the entries read_dir listed for a scope
ListedCandidates(scope) ==
    {read_dir[scope].entries[i] : i \in {j \in DOMAIN read_dir[scope].entries :
                                           IsCandidate(read_dir[scope].entries[j])}}

Ascending(fs) ==
    \A i \in 1..(Len(fs) - 1) : ~LexLess(fs[i + 1].display_path, fs[i].display_path)

InScope(fs, scope) == SelectSeq(fs, LAMBDA f : f.scope = scope)

\* C5: whatever the two directories hold and in whatever order their entries
\* are listed, the candidate list is the global candidates ascending by
\* display path followed by the project candidates ascending by display path.
C5_DiscoveryOrder ==
    pc = "discovered" =>
        LET fs == discovery.files
            G == InScope(fs, "Global")
            P == InScope(fs, "Project")
        IN  /\ fs = G \o P
            /\ Ascending(G) /\ Ascending(P)
            /\ \A sc \in {"Global", "Project"} :
                 /\ {f.display_path : f \in {InScope(fs, sc)[i] : i \in DOMAIN InScope(fs, sc)}}
                      = {DisplayPath(sc, e.name) : e \in ListedCandidates(sc)}
                 /\ Len(InScope(fs, sc)) = Cardinality(ListedCandidates(sc))

\* both directories listed b.md before a.md
C5_Witness ==
    /\ pc = "discovered"
    /\ Len(discovery.files) = 4
    /\ read_dir.Global.entries = <<RegularMd(NameB), RegularMd(NameA)>>
    /\ read_dir.Project.entries = <<RegularMd(NameB), RegularMd(NameA)>>

RECURSIVE BlockStart(_, _)
\* the position in the joined text where the k-th part starts
BlockStart(parts, k) ==
    IF k = 1 THEN 1 ELSE BlockStart(parts, k - 1) + Len(parts[k - 1]) + 2

\* C6: the combined text holds one header+text block per Included outcome,
\* in discovery order and separated by a blank line, so the block of an
\* earlier candidate starts at a lower offset and every global block comes
\* before every project block.
C6_BlocksInDiscoveryOrder ==
    (result.kind = "Ok" /\ result.enabled) =>
        LET inc == SelectSeq(result.files, IsIncluded)
            text == result.combined.text
        IN  /\ Len(loop.parts) = Len(inc)
            /\ inc # <<>> => result.combined.some
            /\ \A k \in DOMAIN inc :
                 LET h == Header(inc[k], inc[k].status.truncated)
                     b == BlockStart(loop.parts, k)
                     n == Len(h) + 1 + inc[k].status.bytes
                 IN  /\ Len(loop.parts[k]) = n
                     /\ SubSeq(text, b, b + n - 1) = loop.parts[k]
                     /\ SubSeq(text, b, b + Len(h)) = h \o NL
                     /\ k < Len(inc) => SubSeq(text, b + n, b + n + 1) = NL \o NL
            /\ \A k, l \in DOMAIN inc :
                 k < l => ~(inc[k].scope = "Project" /\ inc[l].scope = "Global")

\* a load that accepted a global file and then a project file
C6_Witness ==
    /\ result.kind = "Ok" /\ result.enabled
    /\ Len(result.files) = 2
    /\ IsIncluded(result.files[1]) /\ result.files[1].scope = "Global"
    /\ IsIncluded(result.files[2]) /\ result.files[2].scope = "Project"

\* a pass over a file that opens and reads and is empty or whitespace only
PassOverBlankFile ==
    /\ Pass
    /\ cur'.fault \in {"none", "stat"}
    /\ FromUtf8(cur'.content).ok
    /\ TrimIsEmpty(cur'.content)

Completions == UNION {[1..n -> {128, 169}] : n \in 1..3}

\* data is invalid only by an incomplete character at its end
IncompleteTail(data) ==
    /\ ~FromUtf8(data).ok
    /\ \E ext \in Completions : FromUtf8(data \o ext).ok

\* C8 as claimed: an invalid-UTF-8 file is Omitted{NonUtf8}, unless the bytes
\* read are invalid only by an incomplete trailing sequence and the file is
\* larger than the remaining budget: then the longest valid prefix is
\* Included with truncated = true.
C8_AsClaimed ==
    [][(/\ Pass /\ loop.remaining > 0
        /\ cur'.fault = "none"
        /\ ~FromUtf8(cur'.content).ok
        /\ ~FromUtf8(Take(cur'.content, loop.remaining)).ok) =>
         LET data == Take(cur'.content, loop.remaining)
             s == Last(loop'.outcomes).status
         IN  IF Len(cur'.content) > loop.remaining /\ IncompleteTail(data)
             THEN s = Included(Len(LongestValidPrefix(data)), TRUE)
             ELSE s = Omitted("NonUtf8", "")]_vars

\* C8 (amended): when the bytes read from a file (at most the remaining
\* budget) are not valid UTF-8 the outcome is Omitted{NonUtf8}, unless they
\* are invalid only by an incomplete trailing sequence and the size reported
\* for the file (0 when it cannot be determined) exceeds the remaining
\* budget: then the longest valid prefix is the text, Included with
\* truncated = true when it contains non-whitespace and Omitted{Empty} when
\* it is empty or whitespace only.
C8_InvalidUtf8 ==
    [][(/\ Pass /\ loop.remaining > 0
        /\ cur'.fault \in {"none", "stat"}
        /\ ~FromUtf8(Take(cur'.content, loop.remaining)).ok) =>
         LET data == Take(cur'.content, loop.remaining)
             reported == IF cur'.fault = "stat" THEN 0 ELSE Len(cur'.content)
             s == Last(loop'.outcomes).status
             t == LongestValidPrefix(data)
         IN  /\ Len(loop'.outcomes) = Len(loop.outcomes) + 1
             /\ IF reported > loop.remaining /\ IncompleteTail(data)
                THEN IF TrimIsEmpty(t) THEN s = Omitted("Empty", "")
                     ELSE s = Included(Len(t), TRUE)
                ELSE s = Omitted("NonUtf8", "")]_vars

\* a pass with a budget of 2 over "A" followed by a two-byte character has
\* just included the "A" alone
C8_Witness ==
    /\ pc = "iterated"
    /\ cur = [content |-> <<65, 195, 169>>, fault |-> "none"]
    /\ config.steering_doc_max_bytes = 2
    /\ Len(loop.outcomes) = 1
    /\ Last(loop.outcomes).status = Included(1, TRUE)

IsIo(outcome) == HasReason(outcome, "Io")
NotIo(outcome) == ~IsIo(outcome)

\* C9: a failed open gives Omitted{Io} and the loop goes on; the outcomes of
\* the other candidates, the accepted blocks, the remaining budget and the
\* combined text are those of a load from which the candidates whose open
\* failed are absent.
C9_OpenFailureIsLocal ==
    /\ [](pc \in {"loop", "iterated", "done", "failed"} =>
            /\ absent.outcomes = SelectSeq(loop.outcomes, NotIo)
            /\ absent.parts = loop.parts
            /\ absent.remaining = loop.remaining
            /\ (pc = "done" /\ result.enabled) =>
                 /\ SelectSeq(result.files, NotIo) = absent.outcomes
                 /\ result.combined =
                      Combine(config.steering_doc_max_bytes, absent.parts, absent.outcomes))
    /\ [][(Pass /\ loop.remaining > 0 /\ cur'.fault = "open") =>
            /\ pc' = "iterated"
            /\ result' = result
            /\ loop'.outcomes = Append(loop.outcomes,
                                       Outcome(discovery.files[idx], Omitted("Io", "open failed")))]_vars

\* a completed load whose first candidate failed to open and whose second
\* candidate was accepted
C9_Witness ==
    /\ result.kind = "Ok"
    /\ Len(result.files) >= 2
    /\ IsIo(result.files[1])
    /\ IsIncluded(result.files[2])

\* C10: the load fails as a whole, returning an error and no outcomes or
\* combined text, exactly when the probe of a .git marker fails with an error
\* other than not-found or the read of an opened file fails; in every other
\* case it runs to its end and returns a LoadResult.
C10_WholeLoadFailures ==
    /\ [](/\ pc = "failed" <=> result.kind = "Err"
          /\ pc = "done" <=> result.kind = "Ok"
          /\ result.kind = "Err" => (result.files = <<>> /\ ~result.combined.some)
          /\ pc = "start" => ENABLED Normalize
          /\ pc = "walk" => ENABLED (ProbeGit \/ WalkEnds)
          /\ pc = "listGlobal" => ENABLED ListGlobal
          /\ pc = "listProject" => ENABLED ListProject
          /\ pc = "discovered" => ENABLED (ShortCircuit \/ BeginLoop)
          /\ pc = "loop" => ENABLED (Finish \/ OverBudgetSkip \/ ReadFails)
          /\ pc \in {"start", "walk", "listGlobal", "listProject", "discovered", "loop",
                     "iterated", "done", "failed"})
    /\ [][/\ pc' = "failed" =>
               \/ pc = "walk" /\ cursor.depth > 0 /\ result'.error = "git marker probe"
               \/ Pass /\ loop.remaining > 0 /\ cur'.fault = "read" /\ result'.error = "read"
          /\ (Pass /\ loop.remaining > 0 /\ cur'.fault = "read") => pc' = "failed"
          /\ pc \in {"listGlobal", "listProject"} => pc' # "failed"]_vars

\* the read of the second file failed after the first file was accepted
C10_Witness ==
    /\ pc = "failed"
    /\ result = ErrResult("read")
    /\ Len(loop.parts) = 1
    /\ IsIncluded(loop.outcomes[1])

\* a load ran to its end although the global directory could not be listed, a
\* file failed to open and another was not valid UTF-8
C10_WitnessCompleted ==
    /\ result.kind = "Ok"
    /\ discovery.global_dir_state.tag = "Error"
    /\ \E i, j \in DOMAIN result.files :
         IsIo(result.files[i]) /\ HasReason(result.files[j], "NonUtf8")

\* the depths of the directories of the walked chain that hold a .git entry
HoldingGit(depths) == {d \in depths : git_markers[d] = "exists"}

Deepest(depths) == CHOOSE d \in depths : \A e \in depths : e <= d

\* discover_repo_root returns Ok
RootReturned == pc = "walk" /\ pc' = "listGlobal"

\* C11 as claimed: discover_repo_root returns the nearest directory of the
\* chain from cwd up to the file system root, the root included, that holds
\* an entry named .git, and cwd as given when no directory of the chain does.
C11_AsClaimed ==
    [][RootReturned =>
         LET holding == HoldingGit(0..config.cwd.depth)
         IN  IF holding = {} THEN repo_root' = config.cwd
             ELSE repo_root'.depth = Deepest(holding)]_vars

\* C11, the part the code keeps: the same with the chain ending below the
\* file system root, whose own .git entry is never probed.
C11_BelowRoot ==
    [][RootReturned =>
         LET holding == HoldingGit(1..config.cwd.depth)
         IN  IF holding = {} THEN repo_root' = config.cwd
             ELSE repo_root' = [depth |-> Deepest(holding), form |-> cursor.form]]_vars

\* the walk went up from cwd and returned the parent that holds .git, in its
\* canonical form
C11_Witness ==
    /\ pc = "listGlobal"
    /\ config.cwd.depth = 2
    /\ repo_root = [depth |-> 1, form |-> "canonical"]

Scopes == {"Global", "Project"}

\* the directory scanned for a scope and the state reported for it
DirOf(scope) == IF scope = "Global" THEN discovery.global_dir ELSE discovery.project_dir
DirStateOf(scope) ==
    IF scope = "Global" THEN discovery.global_dir_state ELSE discovery.project_dir_state

\* the candidates of a scope, as a set
CandidatesOf(scope) ==
    {discovery.files[i] : i \in {j \in DOMAIN discovery.files : discovery.files[j].scope = scope}}

\* C12: for each of the two directories independently, a directory that does
\* not exist is reported Missing and one whose listing fails otherwise
\* Error(message), both with no candidates, and one that lists Present;
\* discovery never fails on a listing, and the candidates and the state of
\* each directory are those of its own listing whatever the other answered.
C12_DirectoryStates ==
    /\ [](pc = "discovered" =>
            \A sc \in Scopes :
              LET rd == read_dir[sc]
              IN  /\ rd.state = "Missing" =>
                       (DirStateOf(sc) = [msg |-> "", tag |-> "Missing"] /\ CandidatesOf(sc) = {})
                  /\ rd.state = "Error" =>
                       (DirStateOf(sc) = [msg |-> rd.msg, tag |-> "Error"] /\ CandidatesOf(sc) = {})
                  /\ rd.state = "Present" => DirStateOf(sc) = [msg |-> "", tag |-> "Present"]
                  /\ {f.display_path : f \in CandidatesOf(sc)}
                       = {DisplayPath(sc, e.name) : e \in ListedCandidates(sc)})
    /\ [](pc = "listGlobal" => ENABLED DiscoverGlobal)
    /\ [](pc = "listProject" => ENABLED DiscoverProject)
    /\ [][(pc = "listGlobal" \/ pc = "listProject") =>
            (pc' \in {"listProject", "discovered"} /\ result' = result)]_vars

\* the global directory could not be listed, the project directory does not
\* exist: discovery succeeded without candidates
C12_WitnessBothFail ==
    /\ pc = "discovered"
    /\ discovery.global_dir_state.tag = "Error"
    /\ discovery.project_dir_state.tag = "Missing"

\* the global directory could not be listed and the project directory holds
\* two candidates
C12_Witness ==
    /\ pc = "discovered"
    /\ discovery.global_dir_state = [msg |-> "EACCES", tag |-> "Error"]
    /\ discovery.project_dir_state.tag = "Present"
    /\ Len(discovery.files) = 2

\* a file name of more than three bytes that ends in ".md"
EndsInDotMd(name) ==
    Len(name) > 3 /\ SubSeq(name, Len(name) - 2, Len(name)) = <<46, 109, 100>>

\* C13: the candidates are exactly the direct entries of the two scanned
\* directories that are regular files with readable metadata and the
\* extension md, in lower case: symbolic links, directories, special files
\* and entries with another extension are never candidates.
C13_PlainMdFilesOnly ==
    pc = "discovered" =>
        \A sc \in Scopes :
          /\ \A i \in DOMAIN read_dir[sc].entries :
               LET e == read_dir[sc].entries[i]
               IN  (\E f \in CandidatesOf(sc) : f.path = PathJoin(DirOf(sc), e.name))
                   <=> (e.ok /\ e.statOk /\ e.kind = "file" /\ EndsInDotMd(e.name))
          /\ \A f \in CandidatesOf(sc) :
               \E i \in DOMAIN read_dir[sc].entries :
                 /\ f.path = PathJoin(DirOf(sc), read_dir[sc].entries[i].name)
                 /\ f.display_path = DisplayPath(sc, read_dir[sc].entries[i].name)
          /\ Cardinality(CandidatesOf(sc)) = Len(InScope(discovery.files, sc))

\* a symbolic link b.md beside a regular a.md in the global directory, a
\* fifo a.md beside a regular c.MD in the project directory: one candidate
C13_Witness ==
    /\ pc = "discovered"
    /\ read_dir.Global.entries = <<Entry(NameB, "symlink", TRUE), RegularMd(NameA)>>
    /\ read_dir.Project.entries = <<Entry(NameA, "special", TRUE), RegularMd(NameUpperExt)>>
    /\ Len(discovery.files) = 1
    /\ discovery.files[1].path = PathJoin(discovery.global_dir, NameA)

\* two entries of a directory of the disk have the same display path
SameDisplayPath ==
    \E sc \in Scopes : \E e1, e2 \in disk.dirs[sc].entries :
        e1 # e2 /\ DisplayPath(sc, e1.name) = DisplayPath(sc, e2.name)

\* C14 as claimed: two calls against the same file system and the same
\* configuration return identical results, the discovery included, whatever
\* the order in which the directories list their entries in each.
C14_AsClaimed == Len(runs) = 2 => runs[1] = runs[2]

\* C14, the part the code keeps: the same when no two entries of a
\* directory have the same display path.
C14_DistinctDisplayPaths == (Len(runs) = 2 /\ ~SameDisplayPath) => runs[1] = runs[2]

\* two calls listed the two project files in different orders and both
\* accepted a file
C14_Witness ==
    /\ Len(runs) = 2
    /\ Cardinality(disk.dirs.Project.entries) = 2
    /\ runs[1].result.kind = "Ok" /\ runs[1].result.combined.some

\* C15: a successful load has no combined text exactly when no candidate
\* has an Included outcome: none on the short-circuit and when every
\* candidate was omitted, one whenever a file was accepted.
C15_CombinedIffIncluded ==
    result.kind = "Ok" =>
        /\ result.combined.some <=> (\E i \in DOMAIN result.files : IsIncluded(result.files[i]))
        /\ ~result.enabled => ~result.combined.some
        /\ ~result.combined.some => result.combined.text = <<>>

\* an enabled load of three candidates that omitted them all returned no
\* combined text
C15_Witness ==
    /\ result.kind = "Ok" /\ result.enabled
    /\ Len(result.files) = 3
    /\ \A i \in DOMAIN result.files : ~IsIncluded(result.files[i])
    /\ ~result.combined.some

\* C16: once the remaining budget is 0 it stays 0 and every candidate reached
\* from then on is Omitted{OverBudget} without its file being opened or
\* read, so that the OverBudget outcomes are a suffix of the outcome list.
C16_OverBudgetSuffix ==
    /\ [](\A i, j \in DOMAIN loop.outcomes :
            (i < j /\ HasReason(loop.outcomes[i], "OverBudget"))
                => HasReason(loop.outcomes[j], "OverBudget"))
    /\ [](result.kind = "Ok" =>
            \A i, j \in DOMAIN result.files :
              (i < j /\ HasReason(result.files[i], "OverBudget"))
                  => HasReason(result.files[j], "OverBudget"))
    /\ [][((pc = "loop" \/ pc = "iterated") /\ loop.remaining = 0) =>
            loop'.remaining = 0]_vars
    /\ [][(Pass /\ loop.remaining = 0) =>
            /\ pc' = "iterated"
            /\ loop'.outcomes = Append(loop.outcomes,
                                       Outcome(discovery.files[idx], Omitted("OverBudget", "")))
            /\ loop'.opens = loop.opens
            /\ loop'.parts = loop.parts]_vars

\* a file took the whole budget and the two candidates after it were omitted
\* as over budget, no file opened for them
C16_Witness ==
    /\ result.kind = "Ok"
    /\ Len(result.files) = 3
    /\ IsIncluded(result.files[1])
    /\ HasReason(result.files[2], "OverBudget")
    /\ HasReason(result.files[3], "OverBudget")
    /\ loop.opens = 1

\* the first line of a block
RECURSIVE FirstLine(_)
FirstLine(t) == IF t = <<>> \/ t[1] = 10 THEN <<>> ELSE <<t[1]>> \o FirstLine(Tail(t))

\* a header line that carries the mark " truncated=true" before its "]"
CarriesTruncated(h) ==
    /\ Len(h) > 16
    /\ SubSeq(h, Len(h) - 15, Len(h))
         = <<32, 116, 114, 117, 110, 99, 97, 116, 101, 100, 61, 116, 114, 117, 101, 93>>

\* a pass that accepted its file
PassIncluded == Pass /\ pc' = "iterated" /\ IsIncluded(Last(loop'.outcomes))

\* C17 as claimed: an Included outcome has truncated = true exactly when the
\* size of the file exceeds the budget remaining when it is reached, its
\* header carries " truncated=true" exactly when truncated is true, and
\* with truncated = false the whole file was included (bytes = file size).
C17_AsClaimed ==
    [][PassIncluded =>
         LET s == Last(loop'.outcomes).status
             L == Len(cur'.content)
         IN  /\ s.truncated <=> L > loop.remaining
             /\ CarriesTruncated(FirstLine(Last(loop'.parts))) <=> s.truncated
             /\ ~s.truncated => s.bytes = L]_vars

\* C17 (amended): truncated is true exactly when the size reported for the
\* file, taken as 0 when the size query fails, exceeds the remaining budget;
\* the header carries the mark exactly when truncated is true; with
\* truncated = false the bytes included are the whole file when the size
\* query succeeded and the first min(size, remaining) bytes when it failed.
C17_TruncatedFlag ==
    [][PassIncluded =>
         LET s == Last(loop'.outcomes).status
             L == Len(cur'.content)
             reported == IF cur'.fault = "stat" THEN 0 ELSE L
         IN  /\ s.truncated <=> reported > loop.remaining
             /\ CarriesTruncated(FirstLine(Last(loop'.parts))) <=> s.truncated
             /\ Len(loop'.parts) = Len(loop.parts) + 1
             /\ (~s.truncated /\ cur'.fault = "none") =>
                    (s.bytes = L /\ L <= loop.remaining)
             /\ (~s.truncated /\ cur'.fault = "stat") =>
                    s.bytes = (IF L < loop.remaining THEN L ELSE loop.remaining)
             /\ s.truncated => s.bytes < L]_vars

\* a file of three bytes was reached with a budget of 2 and included with
\* truncated = true and the mark in its header
C17_Witness ==
    /\ pc = "iterated"
    /\ cur = [content |-> <<65, 65, 65>>, fault |-> "none"]
    /\ Last(loop.outcomes).status = Included(2, TRUE)
    /\ CarriesTruncated(FirstLine(Last(loop.parts)))

\* a file of one byte was included whole, no mark in its header
C17_WitnessWhole ==
    /\ pc = "iterated"
    /\ cur = [content |-> <<65>>, fault |-> "none"]
    /\ Last(loop.outcomes).status = Included(1, FALSE)
    /\ ~CarriesTruncated(FirstLine(Last(loop.parts)))

RECURSIVE SplitLines(_)
\* the lines of a text
SplitLines(t) ==
    LET nls == {i \in DOMAIN t : t[i] = 10}
    IN  IF nls = {} THEN <<t>>
        ELSE LET at == CHOOSE i \in nls : \A j \in nls : i <= j
             IN  <<SubSeq(t, 1, at - 1)>> \o SplitLines(SubSeq(t, at + 1, Len(t)))

\* the lines of the combined text of the result
CombinedLines == IF result.combined.some THEN SplitLines(result.combined.text) ELSE <<>>

\* the OverBudget outcomes of the result, in outcome order
OverBudgetOutcomes == SelectSeq(result.files, LAMBDA o : HasReason(o, "OverBudget"))

\* the number of lines of the combined text before the note block
LinesBeforeNote ==
    IF OverBudgetOutcomes = <<>> THEN Len(CombinedLines)
    ELSE Len(CombinedLines) - (Len(OverBudgetOutcomes) + 2)

\* C18: the combined text ends with a [Steering: note] block exactly when an
\* outcome is Omitted{OverBudget}; the note states the number of OverBudget
\* outcomes and max_bytes and has one line per OverBudget outcome, in
\* outcome order, with its scope and display path, and no line for a file
\* omitted for another reason.
C18_OmissionNote ==
    (result.kind = "Ok" /\ result.enabled) =>
        LET lines == CombinedLines
            ob == OverBudgetOutcomes
            n == Len(ob)
            base == LinesBeforeNote
        IN  /\ \A i \in 1..base : lines[i] # NoteTitle
            /\ n > 0 =>
                 /\ result.combined.some
                 /\ base >= 0
                 /\ base > 0 => lines[base] = <<>>
                 /\ lines[base + 1] = NoteTitle
                 /\ lines[base + 2] = NoteOmitted \o Decimal(n) \o NoteDueTo
                                      \o Decimal(result.max_bytes) \o Dot
                 /\ \A k \in 1..n :
                      lines[base + 2 + k] = NoteLineScope \o ScopeStr(ob[k].scope) \o HeaderFile
                                           \o ob[k].display_path \o NoteLineReason

\* a note of two lines: the second and third candidates were over budget
C18_Witness ==
    /\ result.kind = "Ok" /\ result.enabled
    /\ Len(OverBudgetOutcomes) = 2
    /\ CombinedLines[LinesBeforeNote + 1] = NoteTitle

\* a note of one line after a load that also omitted an empty file
C18_WitnessOtherOmission ==
    /\ result.kind = "Ok" /\ result.enabled
    /\ Len(result.files) = 3
    /\ HasReason(result.files[1], "Empty")
    /\ IsIncluded(result.files[2])
    /\ HasReason(result.files[3], "OverBudget")

\* an enabled load without OverBudget outcome returned a combined text
C18_WitnessNoNote ==
    /\ result.kind = "Ok" /\ result.enabled
    /\ result.combined.some
    /\ OverBudgetOutcomes = <<>>

RECURSIVE SumLen(_)
\* the sum of the lengths of the lines of a list
SumLen(ls) == IF ls = <<>> THEN 0 ELSE Len(Head(ls)) + SumLen(Tail(ls))

\* the combined text without the note block and its separator
Body ==
    IF OverBudgetOutcomes = <<>> THEN result.combined.text
    ELSE Join(SubSeq(CombinedLines, 1, LinesBeforeNote - 1), NL)

\* the header lines of the blocks of the combined text
HeaderLines == SelectSeq(CombinedLines, LAMBDA l : Take(l, Len(HeaderOpen)) = HeaderOpen)

\* C19 as claimed: the combined text without the note block and its
\* separator is never longer than max_bytes bytes.
C19_AsClaimed ==
    (result.kind = "Ok" /\ result.enabled /\ result.combined.some) =>
        Len(Body) <= result.max_bytes

\* C19 (amended): the combined text without the note block and its separator
\* is the included file text, at most max_bytes bytes in all, plus for each
\* block its header line with the newline after it and between two blocks a
\* separator of two bytes: only the file text is held to the budget.
C19_TextWithinBudget ==
    (result.kind = "Ok" /\ result.enabled /\ result.combined.some) =>
        LET m == Len(HeaderLines)
        IN  /\ m = Len(SelectSeq(result.files, IsIncluded))
            /\ m >= 1
            /\ Len(Body) - SumLen(HeaderLines) - m - 2 * (m - 1) = SumIncluded(result.files)
            /\ SumIncluded(result.files) <= result.max_bytes
            /\ Len(result.combined.text) - Len(Body)
                 = (IF OverBudgetOutcomes = <<>> THEN 0
                    ELSE 2 + Len(Join(SubSeq(CombinedLines, LinesBeforeNote + 1,
                                             Len(CombinedLines)), NL)))

\* two files took the whole budget and a third was listed in the note
C19_Witness ==
    /\ result.kind = "Ok" /\ result.enabled
    /\ Len(HeaderLines) = 2
    /\ SumIncluded(result.files) = result.max_bytes
    /\ Len(OverBudgetOutcomes) = 1

\* C20: a pass that omits its candidate (Io, NonUtf8, Empty, OverBudget)
\* leaves the remaining budget and the accepted blocks as they were, whatever
\* was read of the file; a pass that includes it adds one block and takes
\* exactly the included bytes from the remaining budget.
C20_OnlyIncludedCharges ==
    [][(Pass /\ pc' = "iterated") =>
         LET o == Last(loop'.outcomes)
         IN  /\ Len(loop'.outcomes) = Len(loop.outcomes) + 1
             /\ IF IsIncluded(o)
                THEN /\ o.status.bytes >= 1
                     /\ loop'.remaining = loop.remaining - o.status.bytes
                     /\ Len(loop'.parts) = Len(loop.parts) + 1
                     /\ SubSeq(loop'.parts, 1, Len(loop.parts)) = loop.parts
                ELSE /\ o.status.reason \in {"Io", "NonUtf8", "Empty", "OverBudget"}
                     /\ loop'.remaining = loop.remaining
                     /\ loop'.parts = loop.parts]_vars

\* after a file was accepted, a file of which a byte was read was omitted as
\* not valid UTF-8 and the remaining budget is still 1
C20_Witness ==
    /\ pc = "iterated"
    /\ Len(loop.outcomes) = 2
    /\ IsIncluded(loop.outcomes[1])
    /\ HasReason(loop.outcomes[2], "NonUtf8")
    /\ Len(cur.content) >= 1
    /\ loop.remaining = 1
    /\ Len(loop.parts) = 1

\* an OverBudget outcome at position i of outcomes follows an Included
\* outcome of at least one byte
PrecededByIncluded(outcomes, i) ==
    \E j \in 1..(i - 1) : IsIncluded(outcomes[j]) /\ outcomes[j].status.bytes >= 1

OverBudgetFollowsIncluded(outcomes) ==
    \A i \in DOMAIN outcomes :
        HasReason(outcomes[i], "OverBudget") => PrecededByIncluded(outcomes, i)

\* C21: in the loop and in what an enabled load returns, every outcome
\* Omitted{OverBudget} comes after an Included outcome of at least one byte;
\* a returned combined text that carries the omission note therefore starts
\* with the block of an accepted file, never with the note.
C21_OverBudgetAfterIncluded ==
    /\ OverBudgetFollowsIncluded(loop.outcomes)
    /\ (result.kind = "Ok" /\ result.enabled) =>
          /\ OverBudgetFollowsIncluded(result.files)
          /\ OverBudgetOutcomes # <<>> =>
                /\ result.combined.some
                /\ LinesBeforeNote >= 2
                /\ Take(result.combined.text, Len(HeaderOpen)) = HeaderOpen
                /\ result.combined.text
                      # FormatOmissionNote(result.max_bytes, OverBudgetOutcomes)

\* a load returned an OverBudget outcome after a file that was omitted and a
\* file that was included, and its combined text ends with the note
C21_Witness ==
    /\ result.kind = "Ok" /\ result.enabled
    /\ Len(result.files) = 3
    /\ HasReason(result.files[1], "NonUtf8")
    /\ IsIncluded(result.files[2])
    /\ HasReason(result.files[3], "OverBudget")
    /\ CombinedLines[LinesBeforeNote + 1] = NoteTitle

\* a pass of the loop that went on after including its candidate as truncated
TruncatedInclusion ==
    /\ Pass /\ pc' = "iterated"
    /\ IsIncluded(Last(loop'.outcomes))
    /\ Last(loop'.outcomes).status.truncated

\* C22: a pass that includes its candidate with truncated = true read
\* exactly `remaining` bytes and included at least remaining - 3 of them:
\* all of them, leaving no budget, when they are valid UTF-8; otherwise all
\* but the one to three bytes of an incomplete last character, and as many
\* bytes of budget remain for the candidates after it.
C22_TruncatedTakesBudget ==
    [][TruncatedInclusion =>
         LET o == Last(loop'.outcomes)
             data == ReadData(cur', loop.remaining)
             r == FromUtf8(data)
         IN  /\ Len(data) = loop.remaining
             /\ o.status.bytes >= loop.remaining - 3
             /\ o.status.bytes <= loop.remaining
             /\ loop'.remaining = loop.remaining - o.status.bytes
             /\ r.ok => loop'.remaining = 0
             /\ ~r.ok => /\ r.incomplete
                         /\ loop'.remaining = Len(data) - r.valid_up_to
                         /\ loop'.remaining \in 1..3]_vars

\* the first file was included truncated without the three bytes read of a
\* character of four bytes, and the second file was included against the
\* three bytes left
C22_Witness ==
    /\ pc = "iterated"
    /\ Len(loop.outcomes) = 2
    /\ IsIncluded(loop.outcomes[1])
    /\ loop.outcomes[1].status.truncated
    /\ loop.outcomes[1].status.bytes = config.steering_doc_max_bytes - 3
    /\ IsIncluded(loop.outcomes[2])
    /\ loop.outcomes[2].status.bytes = 3
    /\ loop.remaining = 0

\* a truncated file whose read bytes were valid took the whole budget of
\* WideBudget bytes, and the next candidate was over budget
C22_WitnessExhausted ==
    /\ pc = "iterated"
    /\ Len(loop.outcomes) = 2
    /\ IsIncluded(loop.outcomes[1])
    /\ loop.outcomes[1].status.truncated
    /\ loop.outcomes[1].status.bytes = WideBudget
    /\ HasReason(loop.outcomes[2], "OverBudget")

====
